---- MODULE Spec2Model ----
(***************************************************************************)
(* Model of the py-processor service (src/py-processor/app/main.py and     *)
(* main-simple.py): the relational store (documents, document_pages,       *)
(* chunks), the ingestion handler extract with its chunk-and-store step    *)
(* embed_document, the query handler qa, and the chunker chunk_text.       *)
(*                                                                         *)
(* Texts are sequences of one-character strings, so that splitting,        *)
(* stripping, slicing and ILIKE matching are computed character by         *)
(* character as Python and PostgreSQL compute them.                        *)
(***************************************************************************)
EXTENDS Integers, Sequences, FiniteSets, TLC

(***************************************************************************)
(* Bounds of the model.                                                    *)
(***************************************************************************)
MaxLen == 4
MaxChunkSize == 3
MaxOverlap == 2
MaxRequests == 3
MaxPdfPages == 2

(***************************************************************************)
(* Text primitives.                                                        *)
(***************************************************************************)
Min(a, b) == IF a < b THEN a ELSE b
Max(a, b) == IF a > b THEN a ELSE b

\* str.isspace for one character
IsSpace(c) == c \in {" ", "\n", "\t"}

\* str.lower for one character of the model's alphabet
LowerChar(c) ==
  CASE c = "A" -> "a"
    [] c = "B" -> "b"
    [] c = "Z" -> "z"
    [] OTHER -> c

\* str.lower
Lower(s) == [i \in 1..Len(s) |-> LowerChar(s[i])]

RECURSIVE LStrip(_)
LStrip(s) == IF s # <<>> /\ IsSpace(Head(s)) THEN LStrip(Tail(s)) ELSE s

RECURSIVE RStrip(_)
RStrip(s) ==
  IF s # <<>> /\ IsSpace(s[Len(s)]) THEN RStrip(SubSeq(s, 1, Len(s) - 1)) ELSE s

\* str.strip
Strip(s) == RStrip(LStrip(s))

\* Python slice s[start:], negative start counted from the end
PySliceFrom(s, start) ==
  LET n == Len(s)
      b == IF start < 0 THEN Max(n + start, 0) ELSE Min(start, n)
  IN SubSeq(s, b + 1, n)

\* str.split('. '): left to right, non-overlapping, empty pieces kept
RECURSIVE SplitAcc(_, _)
SplitAcc(rest, cur) ==
  IF rest = <<>> THEN <<cur>>
  ELSE IF Len(rest) >= 2 /\ rest[1] = "." /\ rest[2] = " "
       THEN <<cur>> \o SplitAcc(SubSeq(rest, 3, Len(rest)), <<>>)
       ELSE SplitAcc(Tail(rest), Append(cur, Head(rest)))

SplitSentences(text) == SplitAcc(text, <<>>)

\* str.split(): runs of whitespace separate, no empty token
RECURSIVE SplitWsAcc(_, _)
SplitWsAcc(rest, cur) ==
  IF rest = <<>> THEN (IF cur = <<>> THEN <<>> ELSE <<cur>>)
  ELSE IF IsSpace(Head(rest))
       THEN (IF cur = <<>> THEN <<>> ELSE <<cur>>) \o SplitWsAcc(Tail(rest), <<>>)
       ELSE SplitWsAcc(Tail(rest), Append(cur, Head(rest)))

SplitWords(s) == SplitWsAcc(s, <<>>)

(***************************************************************************)
(* chunk_text (main.py 350-376).                                           *)
(***************************************************************************)
\* the guard of the early return: not text or len(text.strip()) == 0
IsBlank(text) == text = <<>> \/ Len(Strip(text)) = 0

Sep == <<".", " ">>

\* overlap_text = current_chunk[-overlap:] if len(current_chunk) > overlap
\*                else current_chunk
OverlapText(current_chunk, overlap) ==
  IF Len(current_chunk) > overlap
  THEN PySliceFrom(current_chunk, 0 - overlap)
  ELSE current_chunk

\* one iteration of the loop over sentences; st = [current_chunk, chunks]
ChunkStep(st, sentence, chunk_size, overlap) ==
  IF Len(st.current_chunk) + Len(sentence) > chunk_size /\ st.current_chunk # <<>>
  THEN [chunks |-> Append(st.chunks, Strip(st.current_chunk)),
        current_chunk |-> OverlapText(st.current_chunk, overlap) \o Sep \o sentence]
  ELSE [chunks |-> st.chunks,
        current_chunk |-> IF st.current_chunk # <<>>
                          THEN st.current_chunk \o Sep \o sentence
                          ELSE sentence]

\* the statements after the loop: the last chunk is added if it has content
ChunkFlush(st) ==
  IF Strip(st.current_chunk) # <<>>
  THEN Append(st.chunks, Strip(st.current_chunk))
  ELSE st.chunks

RECURSIVE ChunkLoop(_, _, _, _, _)
ChunkLoop(sentences, i, st, chunk_size, overlap) ==
  IF i > Len(sentences) THEN st
  ELSE ChunkLoop(sentences, i + 1,
                 ChunkStep(st, sentences[i], chunk_size, overlap),
                 chunk_size, overlap)

chunk_text(text, chunk_size, overlap) ==
  IF IsBlank(text) THEN <<>>
  ELSE ChunkFlush(ChunkLoop(SplitSentences(text), 1,
                            [chunks |-> <<>>, current_chunk |-> <<>>],
                            chunk_size, overlap))

(***************************************************************************)
(* The store: tables documents, document_pages and chunks as created by    *)
(* init_database (main.py 219-249).  documents is keyed by id; the two     *)
(* child tables are kept in heap (insertion) order.                        *)
(***************************************************************************)
VARIABLES documents, document_pages, chunks

\* the last request handled and the response it got
VARIABLES req, resp

\* the successful ingestions so far, oldest first; clean: no other ingestion
\* or deletion request has been handled; nreq: requests handled
VARIABLES history, clean, nreq

\* chunk_text in progress: its arguments, the sentences, the loop index, the
\* running chunk, the chunks emitted and the position in the function;
\* ct_seeds keeps, for each chunk started, the text it was started with
\* before its first sentence (empty for the first chunk)
VARIABLES ct_text, ct_size, ct_overlap, ct_sentences, ct_i, ct_current,
          ct_chunks, ct_pc, ct_seeds

\* two extract requests served by separate worker processes: where each is
\* in extract, its arguments, the statements of its open transaction, the
\* page rows embed_document fetched, and the order of the commits
VARIABLES wpc, wreq, wtx, wrows, commitOrder

\* extract_text_from_pdf in progress: the pages of the opened PDF, which
\* optional libraries were imported, the loop index, the entries built, the
\* position in the function, and what the OCR branch did on each page
VARIABLES px_pdf, px_libs, px_i, px_pages, px_pc, px_ocr

storeVars == <<documents, document_pages, chunks>>
wVars == <<wpc, wreq, wtx, wrows, commitOrder>>
seqVars == <<req, resp, history, clean, nreq>>
ctVars == <<ct_text, ct_size, ct_overlap, ct_sentences, ct_i, ct_current,
            ct_chunks, ct_pc, ct_seeds>>
pxVars == <<px_pdf, px_libs, px_i, px_pages, px_pc, px_ocr>>

\* caller-supplied document identifiers
DocIds == {0, 1}

FileUrls == {"f1", "f2"}

\* the number of chunk rows embed_document inserts per statement
batch_size == 100

\* a source with one page more than a batch holds, so that its chunks take
\* two batches
LongUrls == {"f3"}

\* per-page text that extract_text_from_pdf obtains from each source
PageTexts(fileUrl) ==
  CASE fileUrl = "f1" -> << <<"a", "b", " ">>, <<" ">>, <<"A", "b">> >>
    [] fileUrl \in LongUrls -> [i \in 1..(batch_size + 1) |-> <<"a">>]
    [] OTHER -> << <<"A", "_">>, <<>> >>

\* pages.append({"page_no": i+1, "text": text}) for every page, in order
ExtractedPages(fileUrl) ==
  [i \in 1..Len(PageTexts(fileUrl)) |->
     [page_no |-> i, text |-> PageTexts(fileUrl)[i]]]

Store(d, p, c) == [documents |-> d, document_pages |-> p, chunks |-> c]

Committed == Store(documents, document_pages, chunks)

\* INSERT INTO documents ... ON CONFLICT (id) DO UPDATE SET title, file_url,
\* status
UpsertDocumentKeepsUrl(docs, row) ==
  IF \E r \in docs : r.id = row.id
  THEN {IF r.id = row.id
        THEN [r EXCEPT !.title = row.title, !.status = row.status]
        ELSE r : r \in docs}
  ELSE docs \cup {row}

UpsertDocument(docs, row) ==
  IF \E r \in docs : r.id = row.id
  THEN {IF r.id = row.id
        THEN [r EXCEPT !.title = row.title, !.file_url = row.file_url,
                       !.status = row.status]
        ELSE r : r \in docs}
  ELSE docs \cup {row}

\* the parameters of the upsert: (documentId, "Document <id>", fileUrl,
\* "processed")
DocumentRow(documentId, fileUrl) ==
  [id |-> documentId, title |-> <<"Document", documentId>>,
   file_url |-> fileUrl, status |-> "processed"]

\* execute_values(INSERT INTO document_pages ...) unless pages is empty
InsertPages(rows, documentId, pages) ==
  IF pages # <<>>
  THEN rows \o [i \in 1..Len(pages) |->
                  [document_id |-> documentId, page_no |-> pages[i].page_no,
                   text |-> pages[i].text]]
  ELSE rows

\* conn.rollback(): the statements of the open transaction are discarded
RollbackKeepsWrites(committed, tx) == tx

Rollback(committed, tx) == committed

(***************************************************************************)
(* embed_document (main.py 447-491).                                       *)
(***************************************************************************)
\* SELECT id, page_no, text FROM document_pages WHERE document_id=%s, in
\* heap order
FetchPages(pageRows, documentId) ==
  LET OfDocument(row) == row.document_id = documentId
  IN SelectSeq(pageRows, OfDocument)

\* the body of the loop over the fetched rows: a blank page is skipped,
\* another is chunked with chunk_size=300, overlap=30
PageChunks(r, documentId) ==
  LET cs == IF IsBlank(r.text) THEN <<>> ELSE chunk_text(r.text, 300, 30)
  IN [idx \in 1..Len(cs) |->
        [document_id |-> documentId, page_no |-> r.page_no, text |-> cs[idx]]]

RECURSIVE AllChunks(_, _)
\* the loop over the fetched rows, in row order (computed by halves)
AllChunks(rows, documentId) ==
  IF rows = <<>> THEN <<>>
  ELSE IF Len(rows) = 1 THEN PageChunks(rows[1], documentId)
  ELSE LET half == Len(rows) \div 2
       IN AllChunks(SubSeq(rows, 1, half), documentId)
            \o AllChunks(SubSeq(rows, half + 1, Len(rows)), documentId)

\* the number of execute_values calls: range(0, len(all_chunks), batch_size)
NumBatches(all_chunks) == (Len(all_chunks) + batch_size - 1) \div batch_size

\* all_chunks[i:i + batch_size] for the k-th batch, k from 1
Batch(all_chunks, k) ==
  SubSeq(all_chunks, (k - 1) * batch_size + 1, Min(k * batch_size, Len(all_chunks)))

RECURSIVE InsertBatches(_, _, _, _)
\* the batches k..upTo appended to the chunks table, in order
InsertBatches(chunkRows, all_chunks, k, upTo) ==
  IF k > upTo THEN chunkRows
  ELSE InsertBatches(chunkRows \o Batch(all_chunks, k), all_chunks, k + 1, upTo)

EmbedChunksReplace(chunkRows, pageRows, documentId, failBatch) ==
  LET all_chunks == AllChunks(FetchPages(pageRows, documentId), documentId)
      OfOther(row) == row.document_id # documentId
      kept == SelectSeq(chunkRows, OfOther)
  IN IF all_chunks = <<>> \/ failBatch > 0 THEN chunkRows
     ELSE InsertBatches(kept, all_chunks, 1, NumBatches(all_chunks))

CloseUncommittedKeepsBatches(committed, tx) == tx

\* the connection of embed_document is dropped before conn.commit(): the
\* table is as committed, the rows of the batches inserted so far are gone
CloseUncommitted(committed, tx) == committed

\* The chunks table after embed_document.  failBatch = 0: no failure;
\* failBatch = k > 0: execute_values raises at batch k, after the batches
\* before k were inserted and before conn.commit().
EmbedChunks(chunkRows, pageRows, documentId, failBatch) ==
  LET all_chunks == AllChunks(FetchPages(pageRows, documentId), documentId)
  IN IF all_chunks = <<>> THEN chunkRows
     ELSE IF failBatch > 0
     THEN CloseUncommitted(chunkRows,
                           InsertBatches(chunkRows, all_chunks, 1, failBatch - 1))
     ELSE InsertBatches(chunkRows, all_chunks, 1, NumBatches(all_chunks))

(***************************************************************************)
(* DELETE FROM documents WHERE id = %s, with the ON DELETE CASCADE of      *)
(* document_pages.document_id and chunks.document_id.                      *)
(***************************************************************************)
CascadeKeepsRows(rows, documentId) == rows

\* the child rows left when the rows referencing documentId are deleted
Cascade(rows, documentId) ==
  LET OfOther(row) == row.document_id # documentId
  IN SelectSeq(rows, OfOther)

DeleteFrom(s, documentId) ==
  Store({r \in s.documents : r.id # documentId},
        Cascade(s.document_pages, documentId),
        Cascade(s.chunks, documentId))

(***************************************************************************)
(* Requests and responses.                                                 *)
(***************************************************************************)
NoAnswer == [kind |-> "none", err |-> "", context |-> <<>>]

Response(op, status, detail) ==
  [op |-> op, status |-> status, detail |-> detail, pages |-> 0,
   answer |-> NoAnswer, citations |-> <<>>, rows |-> <<>>]

Request(op, documentId, fileUrl, fault) ==
  [op |-> op, documentId |-> documentId, fileUrl |-> fileUrl, fault |-> fault,
   query |-> <<>>, top_k |-> 0, ai |-> "not_called"]

\* the call of extract that raises: the download, the upsert statement, the
\* bulk insert of the pages, or execute_values on a batch of chunks
ExtractFaults == {"none", "download", "upsert", "pages", "embed_batch"}

\* the batch at which execute_values raises, 0 when it does not
FailBatch(fault) ==
  CASE fault = "embed_batch" -> 1
    [] fault = "embed_batch_2" -> 2
    [] OTHER -> 0

(***************************************************************************)
(* extract (main.py 378-436), one whole request.                           *)
(***************************************************************************)
\* the store and the response of extract(documentId, fileUrl) when the
\* collaborator named by fault raises
ExtractOutcome(s, documentId, fileUrl, fault) ==
  IF fault = "download"
  THEN [store |-> s, resp |-> Response("extract", 400, "download failed")]
  ELSE
    LET pages == ExtractedPages(fileUrl)
        failed == Response("extract", 500, "Database operation failed")
        tx1 == [s EXCEPT !.documents =
                  UpsertDocument(@, DocumentRow(documentId, fileUrl))]
        tx2 == [tx1 EXCEPT !.document_pages = InsertPages(@, documentId, pages)]
    IN IF fault = "upsert" THEN [store |-> Rollback(s, tx1), resp |-> failed]
       ELSE IF fault = "pages" THEN [store |-> Rollback(s, tx2), resp |-> failed]
       ELSE IF FailBatch(fault) > 0
       THEN [store |-> [tx2 EXCEPT !.chunks =
                          EmbedChunks(@, tx2.document_pages, documentId,
                                      FailBatch(fault))],
             resp |-> failed]
       ELSE [store |-> [tx2 EXCEPT !.chunks =
                          EmbedChunks(@, tx2.document_pages, documentId, 0)],
             resp |-> [Response("extract", 200, "ok") EXCEPT !.pages = Len(pages)]]

\* execute_values on a batch can only raise when there is a batch
FaultPossible(s, documentId, fileUrl, fault) ==
  FailBatch(fault) <=
    NumBatches(AllChunks(FetchPages(InsertPages(s.document_pages, documentId,
                                                ExtractedPages(fileUrl)),
                                    documentId),
                         documentId))

Extract(documentId, fileUrl, fault) ==
  /\ nreq < MaxRequests
  /\ FaultPossible(Committed, documentId, fileUrl, fault)
  /\ LET out == ExtractOutcome(Committed, documentId, fileUrl, fault)
     IN /\ documents' = out.store.documents
        /\ document_pages' = out.store.document_pages
        /\ chunks' = out.store.chunks
        /\ resp' = out.resp
  /\ req' = Request("extract", <<documentId>>, fileUrl, fault)
  /\ history' = IF fault = "none"
                THEN Append(history, [documentId |-> documentId, fileUrl |-> fileUrl])
                ELSE history
  /\ clean' = (clean /\ fault = "none")
  /\ nreq' = nreq + 1
  /\ UNCHANGED <<ctVars, pxVars, wVars>>

\* ingestions of the long source, the insert of either batch failing or none
BatchFaults == {"none", "embed_batch", "embed_batch_2"}

DeleteDocument(documentId) ==
  /\ nreq < MaxRequests
  /\ LET s == DeleteFrom(Committed, documentId)
     IN /\ documents' = s.documents
        /\ document_pages' = s.document_pages
        /\ chunks' = s.chunks
  /\ req' = Request("delete", <<documentId>>, "", "none")
  /\ resp' = Response("delete", 200, "ok")
  /\ clean' = FALSE
  /\ nreq' = nreq + 1
  /\ UNCHANGED <<history, ctVars, pxVars, wVars>>

(***************************************************************************)
(* qa (main.py 493-582).                                                   *)
(***************************************************************************)
score == 1

\* LIKE: % matches any run of characters, _ any one character, and a
\* backslash makes the next pattern character literal
RECURSIVE LikeMatch(_, _)
LikeMatch(pattern, text) ==
  IF pattern = <<>> THEN text = <<>>
  ELSE IF Head(pattern) = "%"
  THEN \/ LikeMatch(Tail(pattern), text)
       \/ text # <<>> /\ LikeMatch(pattern, Tail(text))
  ELSE IF Head(pattern) = "_"
  THEN text # <<>> /\ LikeMatch(Tail(pattern), Tail(text))
  ELSE IF Head(pattern) = "\\" /\ Len(pattern) >= 2
  THEN /\ text # <<>>
       /\ pattern[2] = Head(text)
       /\ LikeMatch(Tail(Tail(pattern)), Tail(text))
  ELSE /\ text # <<>>
       /\ Head(pattern) = Head(text)
       /\ LikeMatch(Tail(pattern), Tail(text))

\* text ILIKE pattern: LIKE without regard to case
ILike(text, pattern) == LikeMatch(Lower(pattern), Lower(text))

\* params.append(f"%{word}%")
LikeParam(word) == <<"%">> \o word \o <<"%">>

RECURSIVE KeepWords(_)
\* [word.lower().strip() for word in words if len(word.strip()) > 1]
KeepWords(words) ==
  IF words = <<>> THEN <<>>
  ELSE (IF Len(Strip(Head(words))) > 1
        THEN <<Strip(Lower(Head(words)))>> ELSE <<>>)
       \o KeepWords(Tail(words))

QueryWords(query) == KeepWords(SplitWords(query))

\* " OR ".join(search_conditions) applied to one row
WhereClause(text, query_words) ==
  \E i \in 1..Len(query_words) : ILike(text, LikeParam(query_words[i]))

\* if inp.documentId: an identifier that is None or 0 selects no scope
IsScoped(documentId) == documentId # <<>> /\ documentId[1] # 0

RECURSIVE ScanChunks(_, _, _, _)
\* positions of the rows of chunks from position i on that pass the WHERE
\* clause, in heap order; scope is <<>> or <<document id>>
ScanChunks(chunkRows, i, scope, query_words) ==
  IF i > Len(chunkRows) THEN <<>>
  ELSE (IF /\ (scope = <<>> \/ chunkRows[i].document_id = scope[1])
           /\ WhereClause(chunkRows[i].text, query_words)
        THEN <<i>> ELSE <<>>)
       \o ScanChunks(chunkRows, i + 1, scope, query_words)

\* LIMIT %s for a non-negative count
LimitNone(rows, top_k) == rows

Limit(rows, top_k) == SubSeq(rows, 1, Min(top_k, Len(rows)))

\* f"[Document {r[1]}, Page {r[2]}]: {r[3]}" for every row, in order
Context(chunkRows, rows) ==
  [j \in 1..Len(rows) |->
     <<chunkRows[rows[j]].document_id, chunkRows[rows[j]].page_no,
       chunkRows[rows[j]].text>>]

\* [{"documentId": r[1], "page": r[2], "score": 1.0} for r in rows]
Citations(chunkRows, rows) ==
  [j \in 1..Len(rows) |->
     [documentId |-> chunkRows[rows[j]].document_id,
      page |-> chunkRows[rows[j]].page_no, score |-> score]]

Answer(kind) == [kind |-> kind, err |-> "", id |-> 0, context |-> <<>>]

\* generate_ai_response (main.py 91-120); ai is what the collaborator does:
\* "unavailable" (not configured), "raise" (generate_content raises), "ok"
generate_ai_response_raises(context, ai) ==
  IF ai = "unavailable" THEN [raised |-> FALSE, answer |-> Answer("unavailable")]
  ELSE IF ai = "raise" THEN [raised |-> TRUE, answer |-> NoAnswer]
  ELSE [raised |-> FALSE, answer |-> [Answer("generated") EXCEPT !.context = context]]

generate_ai_response(context, ai) ==
  IF ai = "unavailable" THEN [raised |-> FALSE, answer |-> Answer("unavailable")]
  ELSE IF ai = "raise"
  THEN [raised |-> FALSE, answer |-> [Answer("apology") EXCEPT !.err = "ai error"]]
  ELSE [raised |-> FALSE, answer |-> [Answer("generated") EXCEPT !.context = context]]

QaRequest(op, query, documentId, top_k, ai) ==
  [op |-> op, documentId |-> documentId, fileUrl |-> "", fault |-> "none",
   query |-> query, top_k |-> top_k, ai |-> ai]

Ok(op, answer) == [Response(op, 200, "ok") EXCEPT !.answer = answer]

\* the rows fetched and the answer built from them (main.py 554-571)
AnswerFromRows(op, chunkRows, rows, gen) ==
  IF rows # <<>>
  THEN IF gen.raised
       THEN Response(op, 500, "Q&A processing failed")
       ELSE [Ok(op, gen.answer) EXCEPT !.citations = Citations(chunkRows, rows),
                                       !.rows = rows]
  ELSE Ok(op, Answer("no_match"))

\* the response of qa; ai is consulted only when rows were fetched
QaOutcome(s, query, documentId, top_k, ai) ==
  IF query = <<>> \/ Strip(query) = <<>>
  THEN Response("qa", 422, "Query cannot be empty")
  ELSE LET query_words == QueryWords(query) IN
  IF query_words = <<>> THEN Ok("qa", Answer("more_specific"))
  ELSE IF Len(s.chunks) = 0 THEN Ok("qa", Answer("no_documents"))
  ELSE IF IsScoped(documentId) /\ ~ \E r \in s.documents : r.id = documentId[1]
  THEN Ok("qa", [Answer("not_found") EXCEPT !.id = documentId[1]])
  ELSE IF top_k < 0 THEN Response("qa", 500, "Q&A processing failed")
  ELSE LET scope == IF IsScoped(documentId) THEN documentId ELSE <<>>
           rows == Limit(ScanChunks(s.chunks, 1, scope, query_words), top_k)
       IN AnswerFromRows("qa", s.chunks, rows,
                         generate_ai_response(Context(s.chunks, rows), ai))

\* whether qa reaches generate_ai_response for this input
QaCallsAi(s, query, documentId, top_k) ==
  QaOutcome(s, query, documentId, top_k, "ok").answer.kind = "generated"

Queries ==
  { <<" ">>,
    <<"a", " ", "b">>,
    <<"a", "b">>,
    <<"a", "_">>,
    <<"A", "B", " ", "z", "z">> }

\* documentId of a query: None or an integer
ScopeIds == {<<>>} \cup {<<d>> : d \in DocIds}

TopKs == {-1, 1, 6}

AiOutcomes == {"ok", "raise", "unavailable"}

Qa(query, documentId, top_k, ai) ==
  /\ nreq < MaxRequests
  /\ (ai = "not_called") = ~ QaCallsAi(Committed, query, documentId, top_k)
  /\ req' = QaRequest("qa", query, documentId, top_k, ai)
  /\ resp' = QaOutcome(Committed, query, documentId, top_k, ai)
  /\ nreq' = nreq + 1
  /\ UNCHANGED <<documents, document_pages, chunks, history, clean, ctVars, pxVars, wVars>>

(***************************************************************************)
(* qa of main-simple.py (115-170): no validation, no count of the chunks,  *)
(* no check that the document exists.                                      *)
(***************************************************************************)
\* generate_ai_response (main-simple.py 61-83)
generate_ai_response_simple(context, ai) ==
  IF ai = "raise"
  THEN [raised |-> FALSE, answer |-> [Answer("apology") EXCEPT !.err = "ai error"]]
  ELSE [raised |-> FALSE, answer |-> [Answer("generated") EXCEPT !.context = context]]

QaSimpleOutcome(s, query, documentId, top_k, ai) ==
  LET query_words == QueryWords(query) IN
  IF query_words = <<>> THEN Ok("qa_simple", Answer("more_specific"))
  ELSE IF top_k < 0 THEN Response("qa_simple", 500, "Internal Server Error")
  ELSE LET scope == IF IsScoped(documentId) THEN documentId ELSE <<>>
           rows == Limit(ScanChunks(s.chunks, 1, scope, query_words), top_k)
       IN AnswerFromRows("qa_simple", s.chunks, rows,
                         generate_ai_response_simple(Context(s.chunks, rows), ai))

QaSimpleCallsAi(s, query, documentId, top_k) ==
  QaSimpleOutcome(s, query, documentId, top_k, "ok").answer.kind = "generated"

QaSimple(query, documentId, top_k, ai) ==
  /\ nreq < MaxRequests
  /\ (ai = "not_called") = ~ QaSimpleCallsAi(Committed, query, documentId, top_k)
  /\ ai # "unavailable"
  /\ req' = QaRequest("qa_simple", query, documentId, top_k, ai)
  /\ resp' = QaSimpleOutcome(Committed, query, documentId, top_k, ai)
  /\ nreq' = nreq + 1
  /\ UNCHANGED <<documents, document_pages, chunks, history, clean, ctVars, pxVars, wVars>>

vars == <<documents, document_pages, chunks, req, resp, history, clean, nreq,
          ct_text, ct_size, ct_overlap, ct_sentences, ct_i, ct_current,
          ct_chunks, ct_pc, ct_seeds, wpc, wreq, wtx, wrows, commitOrder,
          px_pdf, px_libs, px_i, px_pages, px_pc, px_ocr>>

EmptyStore ==
  /\ documents = {}
  /\ document_pages = <<>>
  /\ chunks = <<>>

NoRequests ==
  /\ req = Request("none", <<>>, "", "none")
  /\ resp = Response("none", 0, "")
  /\ history = <<>>
  /\ clean = TRUE
  /\ nreq = 0

ChunkerIdle ==
  /\ ct_text = <<>>
  /\ ct_size = 0
  /\ ct_overlap = 0
  /\ ct_sentences = <<>>
  /\ ct_i = 0
  /\ ct_current = <<>>
  /\ ct_chunks = <<>>
  /\ ct_seeds = <<>>
  /\ ct_pc = "idle"

Workers == {"w1", "w2"}

NoTx == [doc |-> <<>>, pages |-> <<>>]

WorkersIdle ==
  /\ wpc = [w \in Workers |-> "idle"]
  /\ wreq = [w \in Workers |-> [documentId |-> 0, fileUrl |-> "", fault |-> "none"]]
  /\ wtx = [w \in Workers |-> NoTx]
  /\ wrows = [w \in Workers |-> <<>>]
  /\ commitOrder = <<>>

\* extract_text_from_pdf has not been called
PdfIdle ==
  /\ px_pdf = <<>>
  /\ px_libs = [fitz |-> TRUE, ocr |-> TRUE]
  /\ px_i = 0
  /\ px_pages = <<>>
  /\ px_ocr = <<>>
  /\ px_pc = "idle"

Init == EmptyStore /\ NoRequests /\ ChunkerIdle /\ WorkersIdle /\ PdfIdle

Next ==
  \/ \E d \in DocIds, f \in FileUrls, fault \in ExtractFaults : Extract(d, f, fault)
  \/ \E d \in DocIds : DeleteDocument(d)
  \/ \E q \in Queries, d \in ScopeIds, k \in TopKs, ai \in AiOutcomes \cup {"not_called"} :
       Qa(q, d, k, ai)

Spec == Init /\ [][Next]_vars

\* the deployment of main-simple.py answering queries over the same store
NextSimple ==
  \/ \E d \in DocIds, f \in FileUrls, fault \in ExtractFaults : Extract(d, f, fault)
  \/ \E d \in DocIds : DeleteDocument(d)
  \/ \E q \in Queries, d \in ScopeIds, k \in TopKs, ai \in AiOutcomes \cup {"not_called"} :
       QaSimple(q, d, k, ai)

SpecSimple == Init /\ [][NextSimple]_vars

NextBatch ==
  \E d \in DocIds, f \in LongUrls, fault \in BatchFaults : Extract(d, f, fault)

SpecBatch == Init /\ [][NextBatch]_vars

(***************************************************************************)
(* chunk_text run one statement group at a time on every text of at most   *)
(* MaxLen characters.                                                      *)
(***************************************************************************)
ChunkAlphabet == {"a", ".", " "}

Texts == UNION {[1..n -> ChunkAlphabet] : n \in 0..MaxLen}

InitChunk ==
  /\ EmptyStore /\ NoRequests /\ WorkersIdle /\ PdfIdle
  /\ ct_text \in Texts
  /\ ct_size \in -1..MaxChunkSize
  /\ ct_overlap \in -1..MaxOverlap
  /\ ct_sentences = <<>>
  /\ ct_i = 0
  /\ ct_current = <<>>
  /\ ct_chunks = <<>>
  /\ ct_seeds = <<>>
  /\ ct_pc = "start"

\* lines 354-360: the early return, or the split and the empty accumulators
ChunkBegin ==
  /\ ct_pc = "start"
  /\ IF IsBlank(ct_text)
     THEN /\ ct_pc' = "done"
          /\ UNCHANGED <<ct_sentences, ct_i, ct_seeds>>
     ELSE /\ ct_sentences' = SplitSentences(ct_text)
          /\ ct_i' = 1
          /\ ct_seeds' = << <<>> >>
          /\ ct_pc' = "loop"
  /\ UNCHANGED <<ct_text, ct_size, ct_overlap, ct_current, ct_chunks>>
  /\ UNCHANGED <<storeVars, seqVars, wVars, pxVars>>

\* lines 362-370: one iteration of the loop
ChunkIterate ==
  /\ ct_pc = "loop"
  /\ ct_i <= Len(ct_sentences)
  /\ LET st == ChunkStep([chunks |-> ct_chunks, current_chunk |-> ct_current],
                         ct_sentences[ct_i], ct_size, ct_overlap)
     IN /\ ct_chunks' = st.chunks
        /\ ct_current' = st.current_chunk
        /\ ct_seeds' = IF Len(st.chunks) > Len(ct_chunks)
                       THEN Append(ct_seeds,
                                   OverlapText(ct_current, ct_overlap) \o Sep)
                       ELSE ct_seeds
  /\ ct_i' = ct_i + 1
  /\ UNCHANGED <<ct_text, ct_size, ct_overlap, ct_sentences, ct_pc>>
  /\ UNCHANGED <<storeVars, seqVars, wVars, pxVars>>

\* lines 372-376: the last chunk and the return
ChunkReturn ==
  /\ ct_pc = "loop"
  /\ ct_i > Len(ct_sentences)
  /\ ct_chunks' = ChunkFlush([chunks |-> ct_chunks, current_chunk |-> ct_current])
  /\ ct_pc' = "done"
  /\ UNCHANGED <<ct_text, ct_size, ct_overlap, ct_sentences, ct_i, ct_current,
                 ct_seeds>>
  /\ UNCHANGED <<storeVars, seqVars, wVars, pxVars>>

NextChunk == ChunkBegin \/ ChunkIterate \/ ChunkReturn

SpecChunk == InitChunk /\ [][NextChunk]_vars

\* the stepwise run returns what the function chunk_text computes
ChunkRunAgrees ==
  ct_pc = "done" => ct_chunks = chunk_text(ct_text, ct_size, ct_overlap)

(***************************************************************************)
(* extract_text_from_pdf (main.py 315-348) run on every PDF of up to       *)
(* MaxPdfPages pages.  A page is the text of its text layer and whether    *)
(* get_images() and get_drawings() return anything; what the calls of the  *)
(* OCR branch do (raise, or return recognised text) is chosen per page.    *)
(***************************************************************************)
ocr_threshold == 20

Rep(c, n) == [k \in 1..n |-> c]

\* text layers: none, one character short of the threshold followed by a
\* newline, exactly the threshold, and whitespace only
PdfTexts ==
  { <<>>,
    Rep("a", ocr_threshold - 1) \o <<"\n">>,
    Rep("a", ocr_threshold),
    Rep(" ", ocr_threshold) }

PdfPage == [text : PdfTexts, images : BOOLEAN, drawings : BOOLEAN]

Pdfs == UNION {[1..n -> PdfPage] : n \in 0..MaxPdfPages}

\* what pytesseract.image_to_string returns when it returns
OcrTexts == {<<>>, <<"b", "\n">>}

\* check_raises: get_images() or get_drawings() raises; ocr_raises: the
\* rendering, Image.frombytes or image_to_string raises; ok: nothing raises
OcrOutcomes == {"check_raises", "ocr_raises", "ok"}

NeedsOcrAlways(text) == TRUE

\* line 332, the test on the text
NeedsOcr(text) == Len(Strip(text)) < ocr_threshold

\* lines 329-343: the text of one page and what the OCR branch did
ExtractPage(page, libs, outcome, ocr) ==
  IF ~(NeedsOcr(page.text) /\ libs.ocr)
  THEN [text |-> page.text, ocr |-> "skipped"]
  ELSE IF outcome = "check_raises"
  THEN [text |-> page.text, ocr |-> "check_raised"]
  ELSE IF ~(page.images \/ page.drawings)
  THEN [text |-> page.text, ocr |-> "no_content"]
  ELSE IF outcome = "ocr_raises"
  THEN [text |-> page.text, ocr |-> "ocr_raised"]
  ELSE [text |-> Strip(page.text \o <<"\n">> \o ocr), ocr |-> "read"]

InitPdf ==
  /\ EmptyStore /\ NoRequests /\ ChunkerIdle /\ WorkersIdle
  /\ px_pdf \in Pdfs
  /\ px_libs \in [fitz : BOOLEAN, ocr : BOOLEAN]
  /\ px_i = 0
  /\ px_pages = <<>>
  /\ px_ocr = <<>>
  /\ px_pc = "start"

\* lines 320-324: the library check, the open and the empty result list
PdfOpen ==
  /\ px_pc = "start"
  /\ IF px_libs.fitz
     THEN px_i' = 1 /\ px_pc' = "loop"
     ELSE px_i' = px_i /\ px_pc' = "raised"
  /\ UNCHANGED <<px_pdf, px_libs, px_pages, px_ocr>>
  /\ UNCHANGED <<storeVars, seqVars, ctVars, wVars>>

\* lines 326-345: one iteration of the loop over the pages
PdfIterate(outcome, ocr) ==
  /\ px_pc = "loop"
  /\ px_i <= Len(px_pdf)
  /\ LET e == ExtractPage(px_pdf[px_i], px_libs, outcome, ocr)
     IN /\ px_pages' = Append(px_pages, [page_no |-> px_i, text |-> e.text])
        /\ px_ocr' = Append(px_ocr, e.ocr)
  /\ px_i' = px_i + 1
  /\ UNCHANGED <<px_pdf, px_libs, px_pc>>
  /\ UNCHANGED <<storeVars, seqVars, ctVars, wVars>>

\* lines 347-348: the close and the return
PdfReturn ==
  /\ px_pc = "loop"
  /\ px_i > Len(px_pdf)
  /\ px_pc' = "done"
  /\ UNCHANGED <<px_pdf, px_libs, px_i, px_pages, px_ocr>>
  /\ UNCHANGED <<storeVars, seqVars, ctVars, wVars>>

NextPdf ==
  \/ PdfOpen
  \/ \E outcome \in OcrOutcomes, ocr \in OcrTexts : PdfIterate(outcome, ocr)
  \/ PdfReturn

SpecPdf == InitPdf /\ [][NextPdf]_vars

(***************************************************************************)
(* Two extract requests in separate worker processes, interleaved at       *)
(* their storage calls.  The store runs each transaction at READ           *)
(* COMMITTED: its statements are visible to others at the commit, and an   *)
(* upsert of an id waits while another open transaction holds that row.    *)
(***************************************************************************)
ConcFaults == {"none", "upsert", "pages", "embed_batch"}

\* conn.commit(): the upsert and the page rows of the transaction are applied
TxApplyFirstWins(s, tx) ==
  Store(IF tx.doc = <<>> \/ \E r \in s.documents : r.id = tx.doc[1].id
        THEN s.documents ELSE s.documents \cup {tx.doc[1]},
        s.document_pages \o tx.pages, s.chunks)

TxApply(s, tx) ==
  Store(IF tx.doc = <<>> THEN s.documents
        ELSE UpsertDocument(s.documents, tx.doc[1]),
        s.document_pages \o tx.pages, s.chunks)

\* lines 381-402: the source is fetched and its pages extracted
Receive(w, documentId, fileUrl, fault) ==
  /\ wpc[w] = "idle"
  /\ wreq' = [wreq EXCEPT ![w] = [documentId |-> documentId, fileUrl |-> fileUrl,
                                  fault |-> fault]]
  /\ wpc' = [wpc EXCEPT ![w] = "upsert"]
  /\ UNCHANGED <<wtx, wrows, commitOrder, storeVars, seqVars, ctVars, pxVars>>

\* the row of id is written by another transaction that is still open
RowLocked(w, id) ==
  \E u \in Workers \ {w} : wtx[u].doc # <<>> /\ wtx[u].doc[1].id = id

\* lines 406-413: the upsert statement
UpsertStmt(w) ==
  /\ wpc[w] = "upsert"
  /\ IF wreq[w].fault = "upsert"
     THEN /\ wpc' = [wpc EXCEPT ![w] = "failed"]
          /\ wtx' = [wtx EXCEPT ![w] = NoTx]
     ELSE /\ ~ RowLocked(w, wreq[w].documentId)
          /\ wtx' = [wtx EXCEPT ![w].doc =
                       <<DocumentRow(wreq[w].documentId, wreq[w].fileUrl)>>]
          /\ wpc' = [wpc EXCEPT ![w] = "pages"]
  /\ UNCHANGED <<wreq, wrows, commitOrder, storeVars, seqVars, ctVars, pxVars>>

\* lines 419-422: the bulk insert of the pages; a failure rolls back
PagesStmt(w) ==
  /\ wpc[w] = "pages"
  /\ IF wreq[w].fault = "pages"
     THEN /\ wpc' = [wpc EXCEPT ![w] = "failed"]
          /\ wtx' = [wtx EXCEPT ![w] = NoTx]
     ELSE /\ wtx' = [wtx EXCEPT ![w].pages =
                       InsertPages(<<>>, wreq[w].documentId,
                                   ExtractedPages(wreq[w].fileUrl))]
          /\ wpc' = [wpc EXCEPT ![w] = "commit"]
  /\ UNCHANGED <<wreq, wrows, commitOrder, storeVars, seqVars, ctVars, pxVars>>

\* line 424: conn.commit()
CommitTx(w) ==
  /\ wpc[w] = "commit"
  /\ LET s == TxApply(Committed, wtx[w])
     IN /\ documents' = s.documents
        /\ document_pages' = s.document_pages
  /\ commitOrder' = Append(commitOrder, w)
  /\ wtx' = [wtx EXCEPT ![w] = NoTx]
  /\ wpc' = [wpc EXCEPT ![w] = "fetch"]
  /\ UNCHANGED <<chunks, wreq, wrows, seqVars, ctVars, pxVars>>

\* lines 452-470: embed_document fetches the pages and chunks them
EmbedFetch(w) ==
  /\ wpc[w] = "fetch"
  /\ wrows' = [wrows EXCEPT ![w] = FetchPages(document_pages, wreq[w].documentId)]
  /\ wpc' = [wpc EXCEPT ![w] =
               IF AllChunks(wrows'[w], wreq[w].documentId) = <<>>
               THEN "done" ELSE "store"]
  /\ UNCHANGED <<wreq, wtx, commitOrder, storeVars, seqVars, ctVars, pxVars>>

\* lines 473-491: the batches are inserted and committed; a failing batch
\* leaves the transaction uncommitted
EmbedStore(w) ==
  /\ wpc[w] = "store"
  /\ LET all_chunks == AllChunks(wrows[w], wreq[w].documentId)
     IN IF wreq[w].fault = "embed_batch"
        THEN /\ wpc' = [wpc EXCEPT ![w] = "failed"]
             /\ UNCHANGED chunks
        ELSE /\ chunks' = InsertBatches(chunks, all_chunks, 1, NumBatches(all_chunks))
             /\ wpc' = [wpc EXCEPT ![w] = "done"]
  /\ UNCHANGED <<documents, document_pages, wreq, wtx, wrows, commitOrder,
                 seqVars, ctVars, pxVars>>

NextConc ==
  \/ \E w \in Workers, d \in DocIds, f \in FileUrls, fault \in ConcFaults :
       Receive(w, d, f, fault)
  \/ \E w \in Workers : UpsertStmt(w)
  \/ \E w \in Workers : PagesStmt(w)
  \/ \E w \in Workers : CommitTx(w)
  \/ \E w \in Workers : EmbedFetch(w)
  \/ \E w \in Workers : EmbedStore(w)

SpecConc == Init /\ [][NextConc]_vars

(***************************************************************************)
(* Properties of ingestion and deletion.                                   *)
(***************************************************************************)
RowsOfDocument(rows, d) ==
  LET T(r) == r.document_id = d IN SelectSeq(rows, T)

RunsOfDocument(d) ==
  LET T(h) == h.documentId = d IN SelectSeq(history, T)

RECURSIVE PagesOfRuns(_, _)
\* the page rows that the successful ingestions runs wrote for document d
PagesOfRuns(runs, d) ==
  IF runs = <<>> THEN <<>>
  ELSE [i \in 1..Len(PageTexts(Head(runs).fileUrl)) |->
          [document_id |-> d, page_no |-> i,
           text |-> PageTexts(Head(runs).fileUrl)[i]]]
       \o PagesOfRuns(Tail(runs), d)

\* C1: after successful ingestions only, every ingested identifier has
\* exactly one Document row, whose source locator, title and status are
\* those of the most recent ingestion of that identifier, and the Page rows
\* of all its ingestions, earlier ones included, are stored.
C1_UpsertLastWins ==
  clean =>
    \A d \in DocIds :
      LET runs == RunsOfDocument(d)
          rows == {r \in documents : r.id = d}
      IN IF runs = <<>> THEN rows = {}
         ELSE /\ Cardinality(rows) = 1
              /\ \A r \in rows :
                   /\ r.file_url = runs[Len(runs)].fileUrl
                   /\ r.title = <<"Document", d>>
                   /\ r.status = "processed"
              /\ RowsOfDocument(document_pages, d) = PagesOfRuns(runs, d)

\* an identifier ingested twice from different sources, nothing else done
C1_Witness ==
  /\ clean
  /\ resp.op = "extract"
  /\ \E d \in DocIds :
       /\ Len(RunsOfDocument(d)) >= 2
       /\ RunsOfDocument(d)[1].fileUrl # RunsOfDocument(d)[2].fileUrl

\* C2: an ingestion whose Document upsert or Page bulk insert fails answers
\* with the storage error and leaves documents, document_pages and chunks as
\* they were before it started.
C2_FailedInsertRollsBack ==
  [][(/\ nreq' = nreq + 1
      /\ req'.op = "extract"
      /\ req'.fault \in {"upsert", "pages"})
     => (/\ resp'.status = 500
         /\ resp'.detail = "Database operation failed"
         /\ UNCHANGED storeVars)]_vars

\* the page insert failed for an identifier the non-empty store does not hold
C2_Witness ==
  /\ req.op = "extract"
  /\ req.fault = "pages"
  /\ resp.status = 500
  /\ documents # {}
  /\ \A r \in documents : r.id # req.documentId[1]

\* C3: every Chunk row has a Page row of the same document and page number,
\* every Page row has a Document row, and right after the deletion of a
\* Document no Page or Chunk with its identifier is stored.
C3_ReferentialIntegrity ==
  /\ \A i \in 1..Len(chunks) :
       \E j \in 1..Len(document_pages) :
         /\ document_pages[j].document_id = chunks[i].document_id
         /\ document_pages[j].page_no = chunks[i].page_no
  /\ \A j \in 1..Len(document_pages) :
       \E r \in documents : r.id = document_pages[j].document_id
  /\ resp.op = "delete" =>
       /\ RowsOfDocument(document_pages, req.documentId[1]) = <<>>
       /\ RowsOfDocument(chunks, req.documentId[1]) = <<>>
       /\ \A r \in documents : r.id # req.documentId[1]

\* an ingested Document was deleted while another Document keeps its chunks
C3_Witness ==
  /\ resp.op = "delete"
  /\ RunsOfDocument(req.documentId[1]) # <<>>
  /\ chunks # <<>>

(***************************************************************************)
(* Property of concurrent ingestion.                                       *)
(***************************************************************************)
Finished(w) == wpc[w] \in {"done", "failed"}

Committers == {commitOrder[i] : i \in 1..Len(commitOrder)}

\* both requests are finished, were for the same identifier, and both
\* committed their Document transaction
BothCommittedSameId ==
  /\ \A w \in Workers : Finished(w)
  /\ Committers = Workers
  /\ wreq["w1"].documentId = wreq["w2"].documentId

\* C4: when two ingestions of one identifier interleave and both commit
\* their Document transaction, the final store has exactly one Document row
\* of that identifier, its source locator is that of the ingestion that
\* committed last, and the Page rows of both ingestions are stored.
C4_LastCommitWins ==
  BothCommittedSameId =>
    LET d == wreq["w1"].documentId
        first == commitOrder[1]
        last == commitOrder[Len(commitOrder)]
        rows == {r \in documents : r.id = d}
    IN /\ Cardinality(rows) = 1
       /\ \A r \in rows : r.file_url = wreq[last].fileUrl
       /\ RowsOfDocument(document_pages, d) =
            PagesOfRuns(<<wreq[first], wreq[last]>>, d)

\* the two ingestions used different sources and interleaved: the one that
\* committed first fetched the pages of both
C4_Witness ==
  /\ BothCommittedSameId
  /\ wreq["w1"].fileUrl # wreq["w2"].fileUrl
  /\ Len(wrows[commitOrder[1]]) =
       Len(PageTexts(wreq["w1"].fileUrl)) + Len(PageTexts(wreq["w2"].fileUrl))

(***************************************************************************)
(* Properties of qa.                                                       *)
(***************************************************************************)
\* word occurs in text as a substring, without regard to case
Contains(text, word) ==
  \E i \in 1..(Len(text) - Len(word) + 1) :
    Lower(SubSeq(text, i, i + Len(word) - 1)) = Lower(word)

\* positions of the stored chunks whose text contains a term of the query
SubstringMatches(query) ==
  {i \in 1..Len(chunks) :
     \E j \in 1..Len(QueryWords(query)) :
       Contains(chunks[i].text, QueryWords(query)[j])}

\* positions of the stored chunks that the search of the last request
\* selects before the cap is applied
Selected ==
  {i \in 1..Len(chunks) :
     /\ IsScoped(req.documentId) => chunks[i].document_id = req.documentId[1]
     /\ WhereClause(chunks[i].text, QueryWords(req.query))}

RowSet == {resp.rows[j] : j \in 1..Len(resp.rows)}

\* the citations are those of the fetched rows, in their order
CitesRows ==
  /\ Len(resp.citations) = Len(resp.rows)
  /\ \A j \in 1..Len(resp.rows) :
       /\ resp.citations[j].documentId = chunks[resp.rows[j]].document_id
       /\ resp.citations[j].page = chunks[resp.rows[j]].page_no
       /\ resp.citations[j].score = score

\* the fetched rows are the first Min(top_k, number selected) selected
\* chunks, in storage order
FirstSelected ==
  /\ RowSet \subseteq Selected
  /\ \A j \in 1..(Len(resp.rows) - 1) : resp.rows[j] < resp.rows[j + 1]
  /\ \A i \in Selected : \A j \in 1..Len(resp.rows) : i < resp.rows[j] => i \in RowSet
  /\ Len(resp.rows) < req.top_k => RowSet = Selected

\* C5 (on a store that holds chunks, with a result cap that is not
\* negative): a query with a usable term and a document-scope identifier
\* that no stored Document has gets the "document not found" response
\* without citations.
C5_UnknownScopeNotFound ==
  (/\ req.op = "qa"
   /\ QueryWords(req.query) # <<>>
   /\ chunks # <<>>
   /\ req.top_k >= 0
   /\ req.documentId # <<>>
   /\ ~ \E r \in documents : r.id = req.documentId[1])
  => /\ resp.status = 200
     /\ resp.answer.kind = "not_found"
     /\ resp.citations = <<>>

\* C6: every citation of a query that supplies a document-scope identifier
\* carries that identifier.
C6_ScopedCitations ==
  (req.op = "qa" /\ req.documentId # <<>>)
  => \A j \in 1..Len(resp.citations) :
       resp.citations[j].documentId = req.documentId[1]

\* C7: for an unscoped query with no more matches than the cap, the cited
\* chunks are exactly the stored chunks containing a query term as a
\* case-insensitive substring, and every citation has score 1.0.
C7_SubstringMatches ==
  (/\ req.op = "qa"
   /\ req.documentId = <<>>
   /\ QueryWords(req.query) # <<>>
   /\ Cardinality(SubstringMatches(req.query)) <= req.top_k)
  => /\ RowSet = SubstringMatches(req.query)
     /\ CitesRows

\* C8 as claimed: for every top_k the response holds at most top_k
\* citations, the first matching chunks in storage order.
C8_AtMostTopK ==
  req.op = "qa" =>
    /\ Len(resp.citations) <= req.top_k
    /\ CitesRows
    /\ FirstSelected

\* C8 amended: for every top_k >= 0 the response holds at most top_k
\* citations, those of the first chunks in storage order that the search
\* selects; for a negative top_k it holds no citation.
C8_AtMostTopKNonNegative ==
  req.op = "qa" =>
    /\ req.top_k >= 0 =>
         /\ Len(resp.citations) <= req.top_k
         /\ CitesRows
         /\ FirstSelected
    /\ req.top_k < 0 => resp.citations = <<>>

\* the cap cut the result: more chunks were selected than were cited
C8_Witness ==
  /\ req.op = "qa"
  /\ req.top_k = 1
  /\ Len(resp.citations) = 1
  /\ Cardinality(Selected) >= 2

\* C9: when chunks matched and the answer-generation collaborator raises,
\* the query succeeds with the apologetic answer embedding the error text
\* and one citation per matched chunk in retrieval order.
C9_AiFailureIsSoft ==
  (req.op = "qa" /\ req.ai = "raise")
  => /\ resp.status = 200
     /\ resp.answer.kind = "apology"
     /\ resp.answer.err = "ai error"
     /\ resp.rows # <<>>
     /\ CitesRows
     /\ FirstSelected

\* the collaborator raised on a query that matched two chunks
C9_Witness ==
  /\ req.op = "qa"
  /\ req.ai = "raise"
  /\ resp.status = 200
  /\ Len(resp.citations) >= 2

(***************************************************************************)
(* Properties of chunk_text.                                               *)
(***************************************************************************)
WhitespaceOnly(text) == \A i \in 1..Len(text) : IsSpace(text[i])

\* C10: chunk_text returns at least one chunk for a text that is neither
\* empty nor whitespace-only, and no chunk for an empty or whitespace-only
\* text, whatever chunk_size and overlap are.
C10_ChunkCount ==
  ct_pc = "done" =>
    IF WhitespaceOnly(ct_text) THEN ct_chunks = <<>> ELSE Len(ct_chunks) >= 1

\* C11: no chunk that chunk_text returns is the empty string, whatever the
\* text, chunk_size and overlap are; this includes a chunk closed out in the
\* loop while the running chunk holds only whitespace.
C11_NoEmptyChunk ==
  ct_pc = "done" => \A k \in 1..Len(ct_chunks) : ct_chunks[k] # <<>>

\* the last n characters of s, all of s when it has fewer than n
TrailingChars(s, n) == SubSeq(s, Len(s) - Min(n, Len(s)) + 1, Len(s))

\* a loop iteration that closes out the running chunk and starts the next
SplitStep ==
  ct_pc = "loop" /\ ct_pc' = "loop" /\ Len(ct_chunks') = Len(ct_chunks) + 1

\* C12: with overlap >= 0, whenever chunk_text closes a chunk the next chunk
\* starts as exactly the trailing `overlap` characters of the closed chunk
\* (the whole closed chunk when it is shorter than `overlap`), followed by
\* the separator and the sentence that triggered the split.
C12_OverlapSeed ==
  [][(SplitStep /\ ct_overlap >= 0) =>
       ct_current' = TrailingChars(ct_current, ct_overlap) \o Sep
                       \o ct_sentences[ct_i]]_vars

\* chunk with the text it was started with taken off its front
RemoveSeed(chunk, seed) ==
  IF Len(seed) <= Len(chunk) /\ SubSeq(chunk, 1, Len(seed)) = seed
  THEN SubSeq(chunk, Len(seed) + 1, Len(chunk))
  ELSE chunk

\* the sentence units of the chunks from the k-th on, seeds removed
RECURSIVE TailUnits(_, _, _)
TailUnits(chunkSeq, seeds, k) ==
  IF k > Len(chunkSeq) THEN <<>>
  ELSE SplitSentences(RemoveSeed(chunkSeq[k], seeds[k]))
         \o TailUnits(chunkSeq, seeds, k + 1)

\* C13: for every text, taking the overlap seed off each returned chunk
\* after the first and concatenating what remains, in chunk order, gives the
\* sentence units of the text (the pieces between ". " delimiters) in their
\* order, each unit once.  Stated for the texts that are chunked at all
\* (an empty or whitespace-only text returns no chunk by contract).
C13_TailsRebuildSentences ==
  (ct_pc = "done" /\ ~IsBlank(ct_text)) =>
    TailUnits(ct_chunks, ct_seeds, 1) = SplitSentences(ct_text)

\* OCR was run on the i-th page: the page was rendered for recognition
OcrAttempted(i) == px_ocr[i] \in {"ocr_raised", "read"}

\* the OCR branch of the i-th page ended in an exception
OcrFailed(i) == px_ocr[i] \in {"check_raised", "ocr_raised"}

\* the entries built so far are numbered from 1 in page order, all N of
\* them once the function has returned, and a page whose OCR branch failed
\* keeps its directly extracted text
EntriesInOrder ==
  /\ Len(px_pages) <= Len(px_pdf)
  /\ px_pc = "done" => Len(px_pages) = Len(px_pdf)
  /\ px_pc = "raised" => ~px_libs.fitz
  /\ \A i \in 1..Len(px_pages) :
       /\ px_pages[i].page_no = i
       /\ OcrFailed(i) => px_pages[i].text = px_pdf[i].text

RowsOfPage(rows, d, p) ==
  LET T(r) == r.document_id = d /\ r.page_no = p IN SelectSeq(rows, T)

\* the number of chunks embed_document makes of a page text
ChunkCount(text) == IF IsBlank(text) THEN 0 ELSE Len(chunk_text(text, 300, 30))

RECURSIVE ChunkTotal(_)
ChunkTotal(pageRows) ==
  IF pageRows = <<>> THEN 0
  ELSE IF Len(pageRows) = 1 THEN ChunkCount(pageRows[1].text)
  ELSE LET half == Len(pageRows) \div 2
       IN ChunkTotal(SubSeq(pageRows, 1, half))
            + ChunkTotal(SubSeq(pageRows, half + 1, Len(pageRows)))

PageNos(rows) == {rows[k].page_no : k \in 1..Len(rows)}

\* the step is an ingestion request that was answered with success
IngestedOk ==
  nreq' = nreq + 1 /\ req'.op = "extract" /\ resp'.status = 200

\* C15: a successful ingestion of an identifier adds, for every page number,
\* the chunks of every non-empty Page row stored under the identifier at
\* that moment, rows of earlier ingestions included; and after n successful
\* ingestions of one source under one identifier, nothing else having run,
\* each page is stored n times and each of its chunks n(n+1)/2 times.
C15_ChunksOfAllStoredPages ==
  [][IngestedOk =>
       LET d == req'.documentId[1]
           f == req'.fileUrl
           OfDocument(h) == h.documentId = d
           runs == SelectSeq(history', OfDocument)
           n == Len(runs)
       IN /\ \A p \in PageNos(document_pages') :
               Len(RowsOfPage(chunks', d, p)) - Len(RowsOfPage(chunks, d, p))
                 = ChunkTotal(RowsOfPage(document_pages', d, p))
          /\ (clean' /\ \A k \in 1..n : runs[k].fileUrl = f) =>
               \A p \in 1..Len(PageTexts(f)) :
                 /\ Len(RowsOfPage(document_pages', d, p)) = n
                 /\ Len(RowsOfPage(chunks', d, p))
                      = ((n * (n + 1)) \div 2) * ChunkCount(PageTexts(f)[p])
                 /\ \A k \in 1..Len(RowsOfPage(chunks', d, p)) :
                      \E j \in 1..ChunkCount(PageTexts(f)[p]) :
                        RowsOfPage(chunks', d, p)[k].text
                          = chunk_text(PageTexts(f)[p], 300, 30)[j]]_vars

\* one source ingested three times under one identifier, nothing else done:
\* its first page is stored three times and that page's chunk six times
C15_Witness ==
  /\ clean
  /\ resp.op = "extract"
  /\ \E d \in DocIds :
       /\ Len(RunsOfDocument(d)) = 3
       /\ \A k \in 1..3 : RunsOfDocument(d)[k].fileUrl = "f1"
       /\ Len(RowsOfPage(document_pages, d, 1)) = 3
       /\ Len(RowsOfPage(chunks, d, 1)) = 6

\* the step is an ingestion request in which the insert of a batch of chunks
\* raised
EmbedFailed ==
  nreq' = nreq + 1 /\ req'.op = "extract" /\ FailBatch(req'.fault) > 0

\* C16: when chunk-and-store fails at a batch, the first or a later one,
\* the ingestion answers with an error, the chunks table is as before the
\* request, and the Document row (status processed, the request's source)
\* and the run's Page rows are stored; a successful ingestion of the same
\* identifier afterwards adds the chunks of all Page rows of the identifier,
\* those of the failed run included.
C16_EmbedFailureKeepsPages ==
  [][LET d == req'.documentId[1]
         f == req'.fileUrl
     IN /\ EmbedFailed =>
             /\ resp'.status = 500
             /\ chunks' = chunks
             /\ \E r \in documents' :
                  r.id = d /\ r.file_url = f /\ r.status = "processed"
             /\ RowsOfDocument(document_pages', d)
                  = RowsOfDocument(document_pages, d)
                      \o [i \in 1..Len(PageTexts(f)) |->
                            [document_id |-> d, page_no |-> i,
                             text |-> PageTexts(f)[i]]]
        /\ IngestedOk =>
             /\ RowsOfDocument(document_pages, d)
                  = SubSeq(RowsOfDocument(document_pages', d), 1,
                           Len(RowsOfDocument(document_pages, d)))
             /\ Len(RowsOfDocument(chunks', d)) - Len(RowsOfDocument(chunks, d))
                  = ChunkTotal(RowsOfDocument(document_pages', d))]_vars

\* an identifier whose ingestion of a two-batch source failed at a batch of
\* chunks and was then ingested with success: the pages of both runs are
\* stored and the successful run has stored the chunks of all of them
C16_Witness ==
  /\ req.op = "extract"
  /\ resp.status = 200
  /\ \E d \in DocIds :
       /\ req.documentId = <<d>>
       /\ Len(RunsOfDocument(d)) = 1
       /\ Len(RowsOfDocument(document_pages, d)) = 2 * Len(PageTexts(req.fileUrl))
       /\ Len(RowsOfDocument(chunks, d)) = 2 * Len(PageTexts(req.fileUrl))
       /\ Len(PageTexts(req.fileUrl)) > batch_size
====
